---- MODULE Spec2Model ----
(***************************************************************************)
(* Session orchestration of the LiveAgent component                       *)
(* (src/components/LiveAgent.tsx) together with the record store it calls  *)
(* (storageService, second half of src/types.ts).                          *)
(*                                                                         *)
(* One action per callback of the component: the click handlers            *)
(* (connectToLiveAPI, stopAudio, toggleMute, handleTakeOver), the          *)
(* continuation of connectToLiveAPI after `await getUserMedia`, the remote *)
(* session callbacks (onopen, onmessage, onclose, onerror), the promise    *)
(* continuation that stores the session handle, the capture callback       *)
(* (onaudioprocess), the timers of the simulated tool delays, the `ended`  *)
(* event of a playback source and React's effect pass that copies state    *)
(* into the refs.                                                          *)
(***************************************************************************)
EXTENDS Integers, Sequences, FiniteSets, TLC

\* ---------------------------------------------------------------- bounds
MaxAttempts == 3   \* connect() invocations that pass the guard
MaxMsgs == 4       \* remote messages delivered over all sessions
MaxFrames == 2     \* capture frames observed
MaxClock == 2      \* ticks of one playback context's clock
MaxDur == 2        \* longest decoded buffer, in clock ticks
MaxStops == 2      \* stop() invocations

Attempts == 1..MaxAttempts

\* ------------------------------------------------------------- the state
VARIABLES
  \* React state of the component; of logs, the number of its entries
  \* "Session ended" (the other entries are not modelled)
  agentState, error, isMicMuted, transcripts, activeCallDetails, logs,
  \* refs of the component
  agentStateRef, isMicMutedRef, audioContextRef, inputContextRef,
  nextStartTimeRef, sourcesRef, sessionRef,
  currentInputTransRef, currentOutputTransRef, isInitializingRef,
  \* the record store (localStorage keys vox_calls and vox_memory)
  calls, memory,
  \* the environment: build-time credential, connect attempts, audio contexts
  hasApiKey, stage, captureOn, ctxClosed, clock,
  \* onmessage invocations suspended in a simulated tool delay, oldest first
  handlers,
  \* observation of the run: messages delivered and how their handler ended,
  \* sendToolResponse calls, buffers started, sources stop() was called on,
  \* frames captured, the stage each attempt was in when a stopAudio first
  \* covered it, whether an interruption or a stopAudio came since the last
  \* schedule, and the last callback that ran
  delivered, outcome, sent, scheduled, stoppedNodes, frameLog, stoppedAt,
  resetSince, lastEvent

reactVars == <<agentState, error, isMicMuted, transcripts, activeCallDetails,
               logs>>
refVars == <<agentStateRef, isMicMutedRef, audioContextRef, inputContextRef,
             nextStartTimeRef, sourcesRef, sessionRef, currentInputTransRef,
             currentOutputTransRef, isInitializingRef>>
storeVars == <<calls, memory>>
envVars == <<hasApiKey, stage, captureOn, ctxClosed, clock, handlers>>
obsVars == <<delivered, outcome, sent, scheduled, stoppedNodes, frameLog,
             stoppedAt, resetSince, lastEvent>>
vars == <<reactVars, refVars, storeVars, envVars, obsVars>>

\* ------------------------------------------------------------ data types
\* The values of the enum that the component assigns.
AgentState == {"IDLE", "CONNECTING", "LISTENING", "SPEAKING", "IN_CALL"}

Max(a, b) == IF a >= b THEN a ELSE b

\* A function-call request of a toolCall message.
Fc(id, name, arg) == [id |-> id, name |-> name, arg |-> arg]

\* A LiveServerMessage: the fields onmessage reads.  outT / inT are the text
\* of serverContent.outputTranscription / inputTranscription (<<>> = absent),
\* audio is the duration of the decoded inline audio payload (0 = absent).
Msg(outT, inT, tc, tool, audio, intr) ==
  [outT |-> outT, inT |-> inT, turnComplete |-> tc, toolCall |-> tool,
   audio |-> audio, interrupted |-> intr]

\* The callback that ran last, the attempt it belongs to (0: none), for a
\* stop(), whether the callback before it was a stop() too, and whether an
\* onclose or onerror of the live, current session has run with no
\* connectToLiveAPI invoked since.
Event(op, att) ==
  [op |-> op, att |-> att, again |-> op = "stop" /\ lastEvent.op = "stop",
   sinceClose |->
     IF op \in {"close", "error"} /\ sessionRef = att /\ stage[att] = "live"
     THEN TRUE
     ELSE IF op \in {"connect", "connectIgnored", "connectNoKey"} THEN FALSE
     ELSE lastEvent.sinceClose]

FramesLeft(n) == Len(frameLog) < n

\* The attempts a stopAudio has covered.
StoppedAtt == {a \in Attempts : stoppedAt[a] # "never"}


\* ------------------------------------------------- the record store
\* saveCall with the new record put last.
saveCallAppends(stored, call) == stored \o <<call>>

\* saveCall: the new record goes first, the stored ones follow unchanged.
saveCall(stored, call) == <<call>> \o stored

\* Array.from(new Set(list)): the elements in order of first occurrence.
RECURSIVE Dedup(_)
Dedup(s) ==
  IF s = <<>> THEN <<>>
  ELSE LET front == Dedup(SubSeq(s, 1, Len(s) - 1))
           last == s[Len(s)]
       IN  IF \E i \in 1..Len(front) : front[i] = last
           THEN front ELSE Append(front, last)

\* updateMemory without the Set of line 77: the new texts are appended.
updateMemoryAppends(stored, newPreferences) == stored \o newPreferences

\* updateMemory: merge the new preferences into the stored list.
updateMemory(stored, newPreferences) == Dedup(stored \o newPreferences)

\* ------------------------------------------------- what onmessage mutates
\* The part of the component's state an onmessage invocation writes, as one
\* record that the pieces of the handler pass along.
Prog ==
  [agentState |-> agentState, details |-> activeCallDetails,
   muted |-> isMicMuted, transcripts |-> transcripts,
   curIn |-> currentInputTransRef, curOut |-> currentOutputTransRef,
   calls |-> calls, prefs |-> memory,
   nextStart |-> nextStartTimeRef, sources |-> sourcesRef,
   scheduled |-> scheduled, sent |-> sent, resetSince |-> resetSince,
   stoppedNodes |-> stoppedNodes]

SetProg(p) ==
  /\ agentState' = p.agentState
  /\ activeCallDetails' = p.details
  /\ isMicMuted' = p.muted
  /\ transcripts' = p.transcripts
  /\ currentInputTransRef' = p.curIn
  /\ currentOutputTransRef' = p.curOut
  /\ calls' = p.calls
  /\ memory' = p.prefs
  /\ nextStartTimeRef' = p.nextStart
  /\ sourcesRef' = p.sources
  /\ scheduled' = p.scheduled
  /\ sent' = p.sent
  /\ resetSince' = p.resetSince
  /\ stoppedNodes' = p.stoppedNodes

\* updateTranscript: replace the last entry when it is a non-final entry of
\* the same speaker, append a new entry otherwise.
updateTranscript(p, speaker, text, isFinal) ==
  LET prev == p.transcripts
      n == Len(prev)
      entry == [speaker |-> speaker, text |-> text, isFinal |-> isFinal]
  IN  IF n > 0 /\ prev[n].speaker = speaker /\ ~prev[n].isFinal
      THEN [p EXCEPT !.transcripts = [prev EXCEPT ![n] = entry]]
      ELSE [p EXCEPT !.transcripts = Append(prev, entry)]

\* onmessage, part 1: the transcription delta (output first, else input).
HandleTranscription(p, m) ==
  IF m.outT # <<>>
  THEN LET q == [p EXCEPT !.curOut = p.curOut \o m.outT]
       IN  updateTranscript(q, "agent", q.curOut, FALSE)
  ELSE IF m.inT # <<>>
  THEN LET q == [p EXCEPT !.curIn = p.curIn \o m.inT]
       IN  updateTranscript(q, "user", q.curIn, FALSE)
  ELSE p

\* turnComplete without the tests of lines 190 and 194: both speakers are
\* finalised whatever their accumulators hold.
HandleTurnCompleteUntested(p, m) ==
  IF ~m.turnComplete THEN p
  ELSE LET a == [updateTranscript(p, "user", p.curIn, TRUE)
                   EXCEPT !.curIn = <<>>]
       IN  [updateTranscript(a, "agent", a.curOut, TRUE)
              EXCEPT !.curOut = <<>>, !.agentState = "LISTENING"]

\* onmessage, part 1: turnComplete finalises the non-empty accumulators.
HandleTurnComplete(p, m) ==
  IF ~m.turnComplete THEN p
  ELSE LET a == IF p.curIn # <<>>
                THEN [updateTranscript(p, "user", p.curIn, TRUE)
                        EXCEPT !.curIn = <<>>]
                ELSE p
       IN  IF a.curOut # <<>>
           THEN [updateTranscript(a, "agent", a.curOut, TRUE)
                   EXCEPT !.curOut = <<>>, !.agentState = "LISTENING"]
           ELSE a

\* One entry of functionResponses.
Response(fc, result) == [id |-> fc.id, name |-> fc.name, response |-> result]

\* The tool loop's position: the state so far, the index of the request in
\* hand, the responses pushed, and whether the loop runs, waits in a
\* simulated delay, has ended, or was left by an exception.
Loop(p, idx, resp, status) ==
  [p |-> p, idx |-> idx, resp |-> resp, status |-> status]

\* The loop body with a last branch that saves the argument of a request of
\* any other name as a preference.
ToolBeginSavesOthers(r, fc, storageOk) ==
  IF fc.name = "execute_call"
  THEN Loop([r.p EXCEPT !.details = fc.arg, !.agentState = "IN_CALL",
                        !.muted = TRUE],
            r.idx, r.resp, "delay")
  ELSE IF fc.name = "find_business_number"
  THEN Loop(r.p, r.idx, r.resp, "delay")
  ELSE IF storageOk
  THEN Loop([r.p EXCEPT !.prefs = updateMemory(r.p.prefs, <<fc.arg>>)],
            r.idx + 1, Append(r.resp, Response(fc, "Memory saved")), "run")
  ELSE Loop(r.p, r.idx, r.resp, "thrown")

\* One request from the top of the loop body to its first await (or, without
\* one, to its push).  storageOk: whether localStorage.setItem succeeds.
ToolBegin(r, fc, storageOk) ==
  IF fc.name = "execute_call"
  THEN Loop([r.p EXCEPT !.details = fc.arg, !.agentState = "IN_CALL",
                        !.muted = TRUE],
            r.idx, r.resp, "delay")
  ELSE IF fc.name = "find_business_number"
  THEN Loop(r.p, r.idx, r.resp, "delay")
  ELSE IF fc.name = "save_user_preference"
  THEN IF storageOk
       THEN Loop([r.p EXCEPT !.prefs = updateMemory(r.p.prefs, <<fc.arg>>)],
                 r.idx + 1, Append(r.resp, Response(fc, "Memory saved")), "run")
       ELSE Loop(r.p, r.idx, r.resp, "thrown")
  ELSE Loop(r.p, r.idx + 1, Append(r.resp, Response(fc, "Success")), "run")

\* The same request from the end of its simulated delay to its push.
ToolResume(r, fc, storageOk) ==
  IF fc.name = "execute_call"
  THEN IF storageOk
       THEN Loop([r.p EXCEPT !.calls =
                    saveCall(r.p.calls,
                             [recipient |-> fc.arg, status |-> "completed"])],
                 r.idx + 1, Append(r.resp, Response(fc, "Call executed.")), "run")
       ELSE Loop(r.p, r.idx, r.resp, "thrown")
  ELSE Loop(r.p, r.idx + 1, Append(r.resp, Response(fc, "555-0199")), "run")

\* for (const fc of functionCalls): run until a delay, an exception or the end.
RECURSIVE RunTools(_, _, _)
RunTools(r, fcs, storageOk) ==
  IF r.status # "run" THEN r
  ELSE IF r.idx > Len(fcs) THEN Loop(r.p, r.idx, r.resp, "done")
  ELSE RunTools(ToolBegin(r, fcs[r.idx], storageOk), fcs, storageOk)

\* if (sessionRef.current) sessionRef.current.sendToolResponse(...)
SendToolResponse(p, att, no, resp) ==
  IF sessionRef # 0
  THEN [p EXCEPT !.sent = Append(p.sent,
          [to |-> sessionRef, from |-> att, no |-> no, entries |-> resp,
           toStopped |-> sessionRef \in StoppedAtt])]
  ELSE p

\* The audio branch without the Math.max of line 278: the buffer starts at
\* the cursor.
HandleAudioAtCursor(p, att, no, m) ==
  IF m.audio = 0 THEN p
  ELSE LET q == IF agentStateRef # "IN_CALL"
                THEN [p EXCEPT !.agentState = "SPEAKING"] ELSE p
           start == q.nextStart
           node == Len(q.scheduled) + 1
       IN  [q EXCEPT !.scheduled = Append(q.scheduled,
                        [start |-> start, dur |-> m.audio, ctx |-> att,
                         clk |-> clock[att], no |-> no,
                         open |-> att \notin ctxClosed,
                         afterReset |-> q.resetSince]),
                     !.nextStart = start + m.audio,
                     !.sources = q.sources \cup {node},
                     !.resetSince = FALSE]

\* onmessage, part 3: the audio payload.  The buffer is decoded on the output
\* context of the attempt whose callback this is and started at
\* max(cursor, currentTime); the cursor moves on by its duration.
HandleAudio(p, att, no, m) ==
  IF m.audio = 0 THEN p
  ELSE LET q == IF agentStateRef # "IN_CALL"
                THEN [p EXCEPT !.agentState = "SPEAKING"] ELSE p
           start == Max(q.nextStart, clock[att])
           node == Len(q.scheduled) + 1
       IN  [q EXCEPT !.scheduled = Append(q.scheduled,
                        [start |-> start, dur |-> m.audio, ctx |-> att,
                         clk |-> clock[att], no |-> no,
                         open |-> att \notin ctxClosed,
                         afterReset |-> q.resetSince]),
                     !.nextStart = start + m.audio,
                     !.sources = q.sources \cup {node},
                     !.resetSince = FALSE]

\* onmessage, part 4: the interruption.
HandleInterruption(p, m) ==
  IF ~m.interrupted THEN p
  ELSE [p EXCEPT !.stoppedNodes = p.stoppedNodes \cup p.sources,
                 !.sources = {}, !.nextStart = 0, !.curOut = <<>>,
                 !.agentState = "LISTENING", !.resetSince = TRUE]

\* What follows the tool loop: the batched reply, the audio, the interruption.
AfterTools(p, att, no, m, resp) ==
  LET a == IF m.toolCall # <<>> THEN SendToolResponse(p, att, no, resp) ELSE p
  IN  HandleInterruption(HandleAudio(a, att, no, m), m)


\* ------------------------------------------------------- initial state
\* The component as mounted; the record store is whatever earlier page loads
\* left in localStorage.
Mounted ==
  /\ agentState = "IDLE" /\ error = "none" /\ isMicMuted = FALSE
  /\ transcripts = <<>> /\ activeCallDetails = "none" /\ logs = 0
  /\ agentStateRef = "IDLE" /\ isMicMutedRef = FALSE
  /\ audioContextRef = 0 /\ inputContextRef = 0
  /\ nextStartTimeRef = 0 /\ sourcesRef = {} /\ sessionRef = 0
  /\ currentInputTransRef = <<>> /\ currentOutputTransRef = <<>>
  /\ isInitializingRef = FALSE
  /\ calls = <<>>
  /\ hasApiKey \in BOOLEAN
  /\ stage = [a \in Attempts |-> "none"]
  /\ captureOn = {} /\ ctxClosed = {}
  /\ clock = [a \in Attempts |-> 0]
  /\ handlers = <<>>
  /\ delivered = <<>> /\ outcome = <<>> /\ sent = <<>> /\ scheduled = <<>>
  /\ stoppedNodes = {} /\ frameLog = <<>> /\ stoppedAt = [a \in Attempts |-> "never"]
  /\ resetSince = FALSE
  /\ lastEvent = [op |-> "init", att |-> 0, again |-> FALSE,
                  sinceClose |-> FALSE]

\* First use: nothing stored yet.
Init == Mounted /\ memory = <<>>

\* React runs the effects of lines 46-52 after a render: the refs take the
\* value of the state.  A click handler's updates are rendered, and their
\* effects run, before the handler's event ends; updates made in any other
\* callback are rendered in a later task (CommitEffects).
FlushEffects ==
  /\ agentStateRef' = agentState'
  /\ isMicMutedRef' = isMicMuted'

CommitEffects ==
  /\ agentStateRef # agentState \/ isMicMutedRef # isMicMuted
  /\ agentStateRef' = agentState
  /\ isMicMutedRef' = isMicMuted
  /\ lastEvent' = Event("effects", 0)
  /\ UNCHANGED <<reactVars, audioContextRef, inputContextRef, nextStartTimeRef,
                 sourcesRef, sessionRef, currentInputTransRef,
                 currentOutputTransRef, isInitializingRef, storeVars, envVars,
                 delivered, outcome, sent, scheduled, stoppedNodes, frameLog,
                 stoppedAt, resetSince>>

\* ---------------------------------------------------------- stopAudio
\* stopAudio without line 117: the call card is left in place.
stopAudioKeepsCall ==
  /\ ctxClosed' = ctxClosed \cup ({audioContextRef, inputContextRef} \ {0})
  /\ audioContextRef' = 0
  /\ inputContextRef' = 0
  /\ stoppedNodes' = stoppedNodes \cup sourcesRef
  /\ sourcesRef' = {}
  /\ agentState' = "IDLE"
  /\ activeCallDetails' = activeCallDetails
  /\ isInitializingRef' = FALSE
  /\ logs' = logs + 1
  /\ stoppedAt' = [a \in Attempts |->
                     IF stoppedAt[a] = "never" /\ stage[a] # "none"
                     THEN stage[a] ELSE stoppedAt[a]]
  /\ resetSince' = TRUE

\* The body of stopAudio: what it writes.  The session handle, the cursor,
\* the accumulators, the transcript and the mute flag are not touched.
stopAudio ==
  /\ ctxClosed' = ctxClosed \cup ({audioContextRef, inputContextRef} \ {0})
  /\ audioContextRef' = 0
  /\ inputContextRef' = 0
  /\ stoppedNodes' = stoppedNodes \cup sourcesRef
  /\ sourcesRef' = {}
  /\ agentState' = "IDLE"
  /\ activeCallDetails' = "none"
  /\ isInitializingRef' = FALSE
  /\ logs' = logs + 1
  /\ stoppedAt' = [a \in Attempts |->
                     IF stoppedAt[a] = "never" /\ stage[a] # "none"
                     THEN stage[a] ELSE stoppedAt[a]]
  /\ resetSince' = TRUE

\* stopAudio with a reset of the mute flag.
stopAudioFrameUnmutes ==
  /\ isMicMuted' = FALSE
  /\ UNCHANGED <<transcripts, nextStartTimeRef, sessionRef,
                 currentInputTransRef, currentOutputTransRef, storeVars,
                 hasApiKey, captureOn, clock, handlers, delivered, outcome,
                 sent, scheduled, frameLog>>

\* What stopAudio leaves alone, apart from the variables its caller sets.
stopAudioFrame ==
  UNCHANGED <<isMicMuted, transcripts, nextStartTimeRef, sessionRef,
              currentInputTransRef, currentOutputTransRef, storeVars,
              hasApiKey, captureOn, clock, handlers, delivered, outcome, sent,
              scheduled, frameLog>>

\* stop(): stopAudio as the End button calls it.  The button is rendered
\* while agentState is not IDLE; stopAudio itself tests nothing.
Stop ==
  /\ stopAudio /\ stopAudioFrame
  /\ FlushEffects
  /\ lastEvent' = Event("stop", 0)
  /\ UNCHANGED <<error, stage>>

\* ----------------------------------------------------- connectToLiveAPI
\* The guard of line 123 without its test of agentState.
ConnectGuardInitOnly == isInitializingRef

ConnectGuard == isInitializingRef \/ agentState # "IDLE"

NextAttempt == CHOOSE a \in Attempts : stage[a] = "none" /\
                 \A b \in Attempts : b < a => stage[b] # "none"

\* connect(): connectToLiveAPI, the Start button's handler, from its guard
\* to `await getUserMedia`.
Connect ==
  IF ConnectGuard
  THEN /\ lastEvent' = Event("connectIgnored", 0)
       /\ UNCHANGED <<reactVars, refVars, storeVars, envVars, delivered,
                      outcome, sent, scheduled, stoppedNodes, frameLog,
                      stoppedAt, resetSince>>
  ELSE IF ~hasApiKey
  THEN /\ error' = "API Key not found in environment."
       /\ isInitializingRef' = FALSE
       /\ agentState' = "IDLE"
       /\ lastEvent' = Event("connectNoKey", 0)
       /\ UNCHANGED logs
       /\ UNCHANGED <<isMicMuted, transcripts, activeCallDetails,
                      audioContextRef, inputContextRef, nextStartTimeRef,
                      sourcesRef, sessionRef, currentInputTransRef,
                      currentOutputTransRef, storeVars, envVars, delivered,
                      outcome, sent, scheduled, stoppedNodes, frameLog,
                      stoppedAt, resetSince>>
       /\ FlushEffects
  ELSE /\ \E a \in Attempts : stage[a] = "none"
       /\ LET a == NextAttempt
          IN  /\ isInitializingRef' = TRUE
              /\ error' = "none"
              /\ agentState' = "CONNECTING"
              /\ inputContextRef' = a
              /\ audioContextRef' = a
              /\ nextStartTimeRef' = clock[a]
              /\ stage' = [stage EXCEPT ![a] = "mic"]
              /\ lastEvent' = Event("connect", a)
              /\ UNCHANGED logs
       /\ UNCHANGED <<isMicMuted, transcripts, activeCallDetails, sourcesRef,
                      sessionRef, currentInputTransRef, currentOutputTransRef,
                      storeVars, hasApiKey, captureOn, ctxClosed, clock,
                      handlers, delivered, outcome, sent, scheduled,
                      stoppedNodes, frameLog, stoppedAt, resetSince>>
       /\ FlushEffects

\* getUserMedia resolves: the stream is wired and ai.live.connect is called.
MicGranted(a) ==
  /\ stage[a] = "mic"
  /\ stage' = [stage EXCEPT ![a] = "connecting"]
  /\ lastEvent' = Event("micGranted", a)
  /\ UNCHANGED logs
  /\ UNCHANGED <<reactVars, refVars, storeVars, hasApiKey, captureOn,
                 ctxClosed, clock, handlers, delivered, outcome, sent,
                 scheduled, stoppedNodes, frameLog, stoppedAt, resetSince>>

\* The catch block without line 325: the initializing flag stays set.
MicDeniedKeepsFlag(a) ==
  /\ stage[a] = "mic"
  /\ stage' = [stage EXCEPT ![a] = "failed"]
  /\ error' = "Failed to start session"
  /\ agentState' = "IDLE"
  /\ lastEvent' = Event("micDenied", a)
  /\ UNCHANGED logs
  /\ UNCHANGED <<isMicMuted, transcripts, activeCallDetails, agentStateRef,
                 isMicMutedRef, audioContextRef, inputContextRef,
                 nextStartTimeRef, sourcesRef, sessionRef,
                 currentInputTransRef, currentOutputTransRef,
                 isInitializingRef, storeVars, hasApiKey, captureOn,
                 ctxClosed, clock, handlers, delivered, outcome, sent,
                 scheduled, stoppedNodes, frameLog, stoppedAt, resetSince>>

\* getUserMedia rejects: the catch block.
MicDenied(a) ==
  /\ stage[a] = "mic"
  /\ stage' = [stage EXCEPT ![a] = "failed"]
  /\ error' = "Failed to start session"
  /\ isInitializingRef' = FALSE
  /\ agentState' = "IDLE"
  /\ lastEvent' = Event("micDenied", a)
  /\ UNCHANGED logs
  /\ UNCHANGED <<isMicMuted, transcripts, activeCallDetails, agentStateRef,
                 isMicMutedRef, audioContextRef, inputContextRef,
                 nextStartTimeRef, sourcesRef, sessionRef,
                 currentInputTransRef, currentOutputTransRef, storeVars,
                 hasApiKey, captureOn, ctxClosed, clock, handlers, delivered,
                 outcome, sent, scheduled, stoppedNodes, frameLog, stoppedAt,
                 resetSince>>

\* callbacks.onopen
onopen(a) ==
  /\ stage[a] = "connecting"
  /\ stage' = [stage EXCEPT ![a] = "opened"]
  /\ agentState' = "LISTENING"
  /\ isInitializingRef' = FALSE
  /\ captureOn' = captureOn \cup {a}
  /\ lastEvent' = Event("open", a)
  /\ UNCHANGED logs
  /\ UNCHANGED <<error, isMicMuted, transcripts, activeCallDetails,
                 agentStateRef, isMicMutedRef, audioContextRef,
                 inputContextRef, nextStartTimeRef, sourcesRef, sessionRef,
                 currentInputTransRef, currentOutputTransRef, storeVars,
                 hasApiKey, ctxClosed, clock, handlers, delivered, outcome,
                 sent, scheduled, stoppedNodes, frameLog, stoppedAt,
                 resetSince>>

\* sessionPromise.then(session => { sessionRef.current = session })
SessionResolved(a) ==
  /\ stage[a] = "opened"
  /\ stage' = [stage EXCEPT ![a] = "live"]
  /\ sessionRef' = a
  /\ lastEvent' = Event("resolved", a)
  /\ UNCHANGED logs
  /\ UNCHANGED <<reactVars, agentStateRef, isMicMutedRef, audioContextRef,
                 inputContextRef, nextStartTimeRef, sourcesRef,
                 currentInputTransRef, currentOutputTransRef,
                 isInitializingRef, storeVars, hasApiKey, captureOn,
                 ctxClosed, clock, handlers, delivered, outcome, sent,
                 scheduled, stoppedNodes, frameLog, stoppedAt, resetSince>>

\* callbacks.onerror: the connection is refused or breaks.
onerror(a) ==
  /\ stage[a] \in {"connecting", "live"}
  /\ stage' = [stage EXCEPT ![a] = "errored"]
  /\ error' = "Connection error. Check console."
  /\ stopAudio /\ stopAudioFrame
  /\ lastEvent' = Event("error", a)
  /\ UNCHANGED <<agentStateRef, isMicMutedRef>>

\* callbacks.onclose
onclose(a) ==
  /\ stage[a] \in {"connecting", "live", "errored"}
  /\ stage' = [stage EXCEPT ![a] = "closed"]
  /\ stopAudio /\ stopAudioFrame
  /\ lastEvent' = Event("close", a)
  /\ UNCHANGED <<error, agentStateRef, isMicMutedRef>>


\* ------------------------------------------------------------ onmessage
\* A suspended onmessage invocation: the attempt its closure belongs to, the
\* arrival number of its message, the message, the request whose delay it
\* waits in and the responses pushed so far.
Handler(att, no, m, idx, resp) ==
  [att |-> att, no |-> no, msg |-> m, idx |-> idx, resp |-> resp]

\* The timeout of the delay a handler waits in (lines 219 and 236).
DelayOf(h) ==
  IF h.msg.toolCall[h.idx].name = "execute_call" THEN 1500 ELSE 1000

RemoveAt(s, i) == SubSeq(s, 1, i - 1) \o SubSeq(s, i + 1, Len(s))

\* How a handler ended, and whether its session was then the current,
\* not stopped, one.
Ended(st, att) ==
  [st |-> st, current |-> sessionRef = att /\ att \notin StoppedAtt]

\* The end of one run of the handler, from its start or from the end of a
\* delay, to its next await or to its end.  rest: the handlers still waiting;
\* oc: the outcomes recorded, with an entry for this message.
Segment(r, att, no, m, rest, oc) ==
  IF r.status = "delay"
  THEN /\ SetProg(r.p)
       /\ handlers' = Append(rest, Handler(att, no, m, r.idx, r.resp))
       /\ outcome' = [oc EXCEPT ![no] = Ended("pending", att)]
  ELSE IF r.status = "thrown"
  THEN /\ SetProg(r.p)
       /\ handlers' = rest
       /\ outcome' = [oc EXCEPT ![no] = Ended("thrown", att)]
  ELSE /\ \E q \in {AfterTools(r.p, att, no, m, r.resp)} : SetProg(q)
       /\ handlers' = rest
       /\ outcome' = [oc EXCEPT ![no] = Ended("done", att)]

SegmentFrame ==
  UNCHANGED <<error, agentStateRef, isMicMutedRef, audioContextRef,
              inputContextRef, sessionRef, isInitializingRef, hasApiKey,
              stage, captureOn, ctxClosed, clock, frameLog, stoppedAt>>

\* callbacks.onmessage, from its start to its first await or to its end.
\* The session delivers messages once its handle exists and until it closes;
\* stopAudio does not close it.
onmessage(a, m, storageOk) ==
  /\ stage[a] = "live"
  /\ Len(delivered) < MaxMsgs
  /\ LET no == Len(delivered) + 1
         p == HandleTurnComplete(HandleTranscription(Prog, m), m)
         run == IF m.toolCall # <<>>
                THEN RunTools(Loop(p, 1, <<>>, "run"), m.toolCall, storageOk)
                ELSE Loop(p, 1, <<>>, "done")
     IN  \E r \in {run} :
           Segment(r, a, no, m, handlers,
                   Append(outcome, Ended("pending", a)))
  /\ delivered' = Append(delivered,
                          [att |-> a, msg |-> m, stale |-> a \in StoppedAtt])
  /\ lastEvent' = Event("message", a)
  /\ UNCHANGED logs
  /\ SegmentFrame

\* The timer of a simulated delay fires and the handler goes on.  A timer
\* set earlier with a timeout no longer than this one fires first, and the
\* render React scheduled before the delay has run its effects by then.
DelayElapsed(i, storageOk) ==
  /\ i \in 1..Len(handlers)
  /\ \A j \in 1..(i - 1) : DelayOf(handlers[j]) > DelayOf(handlers[i])
  /\ agentStateRef = agentState /\ isMicMutedRef = isMicMuted
  /\ LET h == handlers[i]
         fcs == h.msg.toolCall
         run == RunTools(ToolResume(Loop(Prog, h.idx, h.resp, "run"),
                                    fcs[h.idx], storageOk),
                         fcs, storageOk)
     IN  /\ \E r \in {run} :
              Segment(r, h.att, h.no, h.msg, RemoveAt(handlers, i), outcome)
         /\ lastEvent' = Event("delayElapsed", h.att)
         /\ UNCHANGED logs
  /\ UNCHANGED delivered
  /\ SegmentFrame

\* ------------------------------------------------- capture and playback
\* The attempt of the most recent connectToLiveAPI that passed its guard
\* (0: none yet).
LatestAttempt ==
  IF \A a \in Attempts : stage[a] = "none" THEN 0
  ELSE CHOOSE a \in Attempts :
         stage[a] # "none" /\ \A b \in Attempts : b > a => stage[b] = "none"

\* scriptProcessor.onaudioprocess of attempt a, assigned in its onopen; it
\* fires while the attempt's input context is open.  to: the session the
\* frame is handed to (0: the frame is dropped).
onaudioprocess(a) ==
  /\ a \in captureOn /\ a \notin ctxClosed
  /\ FramesLeft(MaxFrames)
  /\ frameLog' = Append(frameLog,
       [from |-> a,
        to |-> IF sessionRef = 0 \/ isMicMutedRef THEN 0 ELSE sessionRef,
        session |-> sessionRef, mutedRef |-> isMicMutedRef,
        muted |-> isMicMuted, state |-> agentState, latest |-> LatestAttempt,
        afterToggle |-> lastEvent.op = "toggleMute"])
  /\ lastEvent' = Event("frame", a)
  /\ UNCHANGED <<reactVars, refVars, storeVars, envVars, delivered, outcome,
                 sent, scheduled, stoppedNodes, stoppedAt, resetSince>>

\* The Mute button, shown while the agent is not Idle.
toggleMute ==
  /\ agentState # "IDLE"
  /\ isMicMuted' = ~isMicMuted
  /\ lastEvent' = Event("toggleMute", 0)
  /\ UNCHANGED logs
  /\ UNCHANGED <<agentState, error, transcripts, activeCallDetails,
                 audioContextRef, inputContextRef, nextStartTimeRef,
                 sourcesRef, sessionRef, currentInputTransRef,
                 currentOutputTransRef, isInitializingRef, storeVars, envVars,
                 delivered, outcome, sent, scheduled, stoppedNodes, frameLog,
                 stoppedAt, resetSince>>
  /\ FlushEffects

\* The Take Over button, shown with the call card and enabled while muted.
handleTakeOver ==
  /\ activeCallDetails # "none" /\ isMicMuted
  /\ isMicMuted' = FALSE
  /\ lastEvent' = Event("takeOver", 0)
  /\ UNCHANGED logs
  /\ UNCHANGED <<agentState, error, transcripts, activeCallDetails,
                 audioContextRef, inputContextRef, nextStartTimeRef,
                 sourcesRef, sessionRef, currentInputTransRef,
                 currentOutputTransRef, isInitializingRef, storeVars, envVars,
                 delivered, outcome, sent, scheduled, stoppedNodes, frameLog,
                 stoppedAt, resetSince>>
  /\ FlushEffects

\* currentTime of the output context of attempt a advances while it is open.
Tick(a) ==
  /\ stage[a] # "none" /\ a \notin ctxClosed
  /\ clock[a] < MaxClock
  /\ clock' = [clock EXCEPT ![a] = clock[a] + 1]
  /\ lastEvent' = Event("tick", a)
  /\ UNCHANGED <<reactVars, refVars, storeVars, hasApiKey, stage, captureOn,
                 ctxClosed, handlers, delivered, outcome, sent, scheduled,
                 stoppedNodes, frameLog, stoppedAt, resetSince>>

\* The `ended` listener of a source that has played to its end.
SourceEnded(n) ==
  /\ n \in sourcesRef
  /\ scheduled[n].ctx \notin ctxClosed
  /\ clock[scheduled[n].ctx] >= scheduled[n].start + scheduled[n].dur
  /\ sourcesRef' = sourcesRef \ {n}
  /\ lastEvent' = Event("ended", scheduled[n].ctx)
  /\ UNCHANGED <<reactVars, agentStateRef, isMicMutedRef, audioContextRef,
                 inputContextRef, nextStartTimeRef, sessionRef,
                 currentInputTransRef, currentOutputTransRef,
                 isInitializingRef, storeVars, envVars, delivered, outcome,
                 sent, scheduled, stoppedNodes, frameLog, stoppedAt,
                 resetSince>>

\* ------------------------------------------------------ remote messages
NoTool == <<>>
ToolMsg(fcs) == Msg(<<>>, <<>>, FALSE, fcs, 0, FALSE)
AudioMsg(d) == Msg(<<>>, <<>>, FALSE, NoTool, d, FALSE)
InterruptMsg == Msg(<<>>, <<>>, FALSE, NoTool, 0, TRUE)
TurnCompleteMsg == Msg(<<>>, <<>>, TRUE, NoTool, 0, FALSE)
OutDeltaMsg == Msg(<<"hi">>, <<>>, FALSE, NoTool, 0, FALSE)
InDeltaMsg == Msg(<<>>, <<"yo">>, FALSE, NoTool, 0, FALSE)

ExecuteCall == Fc(12, "execute_call", "Bob")
SavePreference == Fc(11, "save_user_preference", "tea")
FindNumber == Fc(13, "find_business_number", "pizza")

Batches ==
  { <<ExecuteCall>>, <<SavePreference>>, <<FindNumber>>,
    <<ExecuteCall, SavePreference>> }

\* A tool call and an audio payload in one message.
ToolAudioMsg == Msg(<<>>, <<>>, FALSE, <<FindNumber>>, 1, FALSE)

AudioMsgs == {AudioMsg(d) : d \in 1..MaxDur}

\* ------------------------------------------------------ specifications
\* Each specification explores the callbacks its claims are about, up to a
\* number of attempts, of messages, of frames and of clock ticks.
AttemptsWithin(n) == \A a \in Attempts : a > n => stage[a] = "none"
MsgsLeft(n) == Len(delivered) < n
StopsLeft(n) == logs < n

\* Spec: the session life cycle, with messages of each kind.
LifeMsgs == {ToolMsg(<<ExecuteCall>>), AudioMsg(1), OutDeltaMsg, InterruptMsg}

Next ==
  \/ Connect /\ AttemptsWithin(MaxAttempts - 1)'
  \/ Stop /\ StopsLeft(MaxStops)
  \/ \E a \in Attempts : MicGranted(a)
  \/ \E a \in Attempts : MicDenied(a)
  \/ \E a \in Attempts : onopen(a)
  \/ \E a \in Attempts : SessionResolved(a)
  \/ \E a \in Attempts : onerror(a)
  \/ \E a \in Attempts : onclose(a)
  \/ CommitEffects
  \/ /\ MsgsLeft(MaxMsgs - 3)
     /\ \E a \in Attempts, m \in LifeMsgs, ok \in BOOLEAN : onmessage(a, m, ok)
  \/ \E i \in 1..MaxMsgs, ok \in BOOLEAN : DelayElapsed(i, ok)

Spec == Init /\ [][Next]_vars

\* SpecTools: tool-call batches, with stop and reconnect.
NextTools ==
  \/ Connect /\ AttemptsWithin(MaxAttempts - 1)'
  \/ Stop /\ StopsLeft(MaxStops - 1)
  \/ \E a \in Attempts : MicGranted(a)
  \/ \E a \in Attempts : onopen(a)
  \/ \E a \in Attempts : SessionResolved(a)
  \/ CommitEffects
  \/ /\ MsgsLeft(MaxMsgs - 2)
     /\ \E a \in Attempts, b \in Batches, ok \in BOOLEAN :
          onmessage(a, ToolMsg(b), ok)
  \/ \E i \in 1..MaxMsgs, ok \in BOOLEAN : DelayElapsed(i, ok)

SpecTools == Init /\ [][NextTools]_vars

\* SpecMute: capture under the mute flag.
NextMute ==
  \/ Connect /\ AttemptsWithin(MaxAttempts - 1)'
  \/ Stop /\ StopsLeft(MaxStops - 1)
  \/ \E a \in Attempts : MicGranted(a)
  \/ \E a \in Attempts : onopen(a)
  \/ \E a \in Attempts : SessionResolved(a)
  \/ CommitEffects
  \/ toggleMute
  \/ handleTakeOver
  \/ \E a \in Attempts : onaudioprocess(a)
  \/ /\ MsgsLeft(MaxMsgs - 3)
     /\ \E a \in Attempts, ok \in BOOLEAN :
          onmessage(a, ToolMsg(<<ExecuteCall>>), ok)
  \/ \E i \in 1..MaxMsgs, ok \in BOOLEAN : DelayElapsed(i, ok)

SpecMute == Init /\ [][NextMute]_vars

\* SpecAudio: playback scheduling against the clock of the output context.
NextAudio ==
  \/ Connect /\ AttemptsWithin(MaxAttempts - 2)'
  \/ Stop /\ StopsLeft(MaxStops - 1)
  \/ \E a \in Attempts : MicGranted(a)
  \/ \E a \in Attempts : onopen(a)
  \/ \E a \in Attempts : SessionResolved(a)
  \/ CommitEffects
  \/ /\ MsgsLeft(MaxMsgs - 1)
     /\ \E a \in Attempts, m \in AudioMsgs \cup {InterruptMsg, ToolAudioMsg} :
          onmessage(a, m, TRUE)
  \/ \E i \in 1..MaxMsgs : DelayElapsed(i, TRUE)
  \/ \E a \in Attempts : Tick(a)
  \/ \E n \in 1..MaxMsgs : SourceEnded(n)

SpecAudio == Init /\ [][NextAudio]_vars

\* SpecReconnect: audio of one session across later attempts to connect.
NextReconnect ==
  \/ Connect
  \/ Stop /\ StopsLeft(MaxStops - 1)
  \/ \E a \in Attempts : MicGranted(a)
  \/ \E a \in Attempts : MicDenied(a)
  \/ \E a \in Attempts : onopen(a)
  \/ \E a \in Attempts : SessionResolved(a)
  \/ CommitEffects
  \/ /\ MsgsLeft(MaxMsgs - 2)
     /\ \E a \in Attempts, m \in AudioMsgs : onmessage(a, m, TRUE)

SpecReconnect == Init /\ [][NextReconnect]_vars

\* SpecMemory: preferences saved on top of a memory stored earlier, and
\* requests that name no tool of the component.
Prefs == {"tea", "jazz"}

\* The preference lists earlier saves can have stored: no text twice.
StoredMemories ==
  {m \in UNION {[1..n -> Prefs] : n \in 0..Cardinality(Prefs)} :
     \A i, j \in 1..Len(m) : m[i] = m[j] => i = j}

InitStored == Mounted /\ memory \in StoredMemories

SavePref(p) == Fc(11, "save_user_preference", p)
UnknownTool == Fc(14, "send_email", "Bob")

MemoryBatches ==
  {<<SavePref(p)>> : p \in Prefs} \cup
  {<<UnknownTool>>, <<UnknownTool, SavePref("tea")>>}

NextMemory ==
  \/ Connect /\ AttemptsWithin(MaxAttempts - 2)'
  \/ \E a \in Attempts : MicGranted(a)
  \/ \E a \in Attempts : onopen(a)
  \/ \E a \in Attempts : SessionResolved(a)
  \/ CommitEffects
  \/ /\ MsgsLeft(MaxMsgs - 1)
     /\ \E a \in Attempts, b \in MemoryBatches, ok \in BOOLEAN :
          onmessage(a, ToolMsg(b), ok)

SpecMemory == InitStored /\ [][NextMemory]_vars

\* SpecTurns: the messages of the turns of one session, in any order.
TurnMsgs ==
  {OutDeltaMsg, InDeltaMsg, TurnCompleteMsg, InterruptMsg, AudioMsg(1),
   ToolMsg(<<ExecuteCall>>)}

NextTurns ==
  \/ Connect /\ AttemptsWithin(MaxAttempts - 2)'
  \/ \E a \in Attempts : MicGranted(a)
  \/ \E a \in Attempts : onopen(a)
  \/ \E a \in Attempts : SessionResolved(a)
  \/ CommitEffects
  \/ \E a \in Attempts, m \in TurnMsgs : onmessage(a, m, TRUE)
  \/ \E i \in 1..MaxMsgs : DelayElapsed(i, TRUE)

SpecTurns == Init /\ [][NextTurns]_vars

\* SpecCalls: calls to two recipients, alone and in a batch, with a stop.
CallAnn == Fc(15, "execute_call", "Ann")

CallBatches ==
  {<<ExecuteCall>>, <<CallAnn>>, <<CallAnn, SavePreference>>, <<FindNumber>>}

NextCalls ==
  \/ Connect /\ AttemptsWithin(MaxAttempts - 2)'
  \/ Stop /\ StopsLeft(MaxStops - 1)
  \/ \E a \in Attempts : MicGranted(a)
  \/ \E a \in Attempts : onopen(a)
  \/ \E a \in Attempts : SessionResolved(a)
  \/ CommitEffects
  \/ /\ MsgsLeft(MaxMsgs - 1)
     /\ \E a \in Attempts, b \in CallBatches, ok \in BOOLEAN :
          onmessage(a, ToolMsg(b), ok)
  \/ \E i \in 1..MaxMsgs, ok \in BOOLEAN : DelayElapsed(i, ok)

SpecCalls == Init /\ [][NextCalls]_vars

\* SpecDeltas: transcript deltas, one or both directions in a message.
BothDeltaMsg == Msg(<<"hi">>, <<"yo">>, FALSE, NoTool, 0, FALSE)

DeltaMsgs == {OutDeltaMsg, InDeltaMsg, BothDeltaMsg, TurnCompleteMsg}

NextDeltas ==
  \/ Connect /\ AttemptsWithin(MaxAttempts - 2)'
  \/ \E a \in Attempts : MicGranted(a)
  \/ \E a \in Attempts : onopen(a)
  \/ \E a \in Attempts : SessionResolved(a)
  \/ CommitEffects
  \/ \E a \in Attempts, m \in DeltaMsgs : onmessage(a, m, TRUE)

SpecDeltas == Init /\ [][NextDeltas]_vars

\* SpecMuteLife: the mute flag across the life cycle of two sessions.
MuteLifeMsgs ==
  {ToolMsg(<<ExecuteCall>>), TurnCompleteMsg, InterruptMsg}

NextMuteLife ==
  \/ Connect /\ AttemptsWithin(MaxAttempts - 1)'
  \/ Stop /\ StopsLeft(MaxStops - 1)
  \/ \E a \in Attempts : MicGranted(a)
  \/ \E a \in Attempts : onopen(a)
  \/ \E a \in Attempts : SessionResolved(a)
  \/ \E a \in Attempts : StopsLeft(MaxStops - 1) /\ onerror(a)
  \/ \E a \in Attempts : StopsLeft(MaxStops - 1) /\ onclose(a)
  \/ CommitEffects
  \/ toggleMute
  \/ handleTakeOver
  \/ \E a \in Attempts : FramesLeft(MaxFrames - 1) /\ onaudioprocess(a)
  \/ /\ MsgsLeft(MaxMsgs - 2)
     /\ \E a \in Attempts, m \in MuteLifeMsgs : onmessage(a, m, TRUE)
  \/ \E i \in 1..MaxMsgs : DelayElapsed(i, TRUE)

SpecMuteLife == Init /\ [][NextMuteLife]_vars

\* ================================================================ claims
\* The tool-call messages whose handler has ended with its session still the
\* current, not stopped, one.
HandledWhileCurrent ==
  {k \in 1..Len(delivered) :
     /\ delivered[k].msg.toolCall # <<>>
     /\ outcome[k].st \in {"done", "thrown"}
     /\ outcome[k].current}

RepliesTo(k) == {i \in 1..Len(sent) : sent[i].no = k}

\* C1: a tool-call message with n requests, handled while its session stays
\* current, gets exactly one sendToolResponse, issued once all n requests
\* have finished, with n entries in the order of the requests, the i-th
\* carrying the id and the name of the i-th request.
C1_OneBatchedReply ==
  /\ \A k \in HandledWhileCurrent :
       LET fcs == delivered[k].msg.toolCall
       IN  /\ Cardinality(RepliesTo(k)) = 1
           /\ \A i \in RepliesTo(k) :
                /\ Len(sent[i].entries) = Len(fcs)
                /\ \A j \in 1..Len(fcs) :
                     /\ sent[i].entries[j].id = fcs[j].id
                     /\ sent[i].entries[j].name = fcs[j].name
  /\ \A k \in 1..Len(delivered) :
       outcome[k].st = "pending" => RepliesTo(k) = {}

NoConnectSinceStop == \A b \in Attempts : stage[b] # "none" => b \in StoppedAtt

\* A step in which onmessage runs, from its start or after a delay, for a
\* session that was live when a stop() covered it, no connect() having
\* followed.
LateMessageStep ==
  /\ NoConnectSinceStop
  /\ \/ /\ Len(delivered') = Len(delivered) + 1
        /\ stoppedAt[delivered'[Len(delivered')].att] = "live"
     \/ /\ lastEvent'.op = "delayElapsed"
        /\ stoppedAt[lastEvent'.att] = "live"
        /\ outcome' # outcome \/ handlers' # handlers

\* C2: after stop(), an event of the stopped session changes neither
\* AgentState, the transcript, the accumulators, the active playback set, the
\* cursor, the mute flag nor the call details, until the next connect().
C2_LateEventsInert ==
  [][LateMessageStep =>
       UNCHANGED <<agentState, transcripts, currentInputTransRef,
                   currentOutputTransRef, sourcesRef, nextStartTimeRef,
                   isMicMuted, activeCallDetails>>]_vars

\* C3: the reply to a tool-call message that reached its session before any
\* stop() is never sent to a stopped session nor to a session other than the
\* one that issued the requests; a stop() or a later connect() during the
\* simulated delay makes the handler drop it.
C3_LateReplyDropped ==
  \A i \in 1..Len(sent) :
    ~delivered[sent[i].no].stale =>
      ~sent[i].toStopped /\ sent[i].to = sent[i].from

\* A step in which connectToLiveAPI is invoked.
ConnectCalled ==
  /\ lastEvent' # lastEvent
  /\ lastEvent'.op \in {"connect", "connectIgnored", "connectNoKey"}

\* C4: connect() invoked while AgentState is not Idle or while a connect is
\* initializing changes nothing: no attempt is started, no session opened,
\* and state, contexts and cursor stay as the first invocation set them.
C4_ConnectIsGuarded ==
  [][ConnectCalled /\ (isInitializingRef \/ agentState # "IDLE") =>
       UNCHANGED <<reactVars, refVars, storeVars, envVars>>]_vars

C4_Witness ==
  /\ lastEvent.op = "connectIgnored"
  /\ agentState = "CONNECTING" /\ isInitializingRef
  /\ \E a \in Attempts : stage[a] = "mic"

\* A step in which the End button's stopAudio runs.
StopCalled == lastEvent' # lastEvent /\ lastEvent'.op = "stop"

\* C5: stop() in any AgentState, also twice in a row, leaves AgentState
\* Idle, closes the contexts the two refs held and clears the refs, empties
\* the active playback set and removes the call details.
C5_StopTearsDown ==
  [][StopCalled =>
       /\ agentState' = "IDLE"
       /\ audioContextRef' = 0 /\ inputContextRef' = 0
       /\ ({audioContextRef, inputContextRef} \ {0}) \subseteq ctxClosed'
       /\ sourcesRef' = {}
       /\ activeCallDetails' = "none"]_vars

C5_Witness ==
  /\ lastEvent.op = "stop" /\ lastEvent.again
  /\ \E a \in Attempts : stoppedAt[a] = "live"
  /\ stoppedNodes # {}

\* An attempt that a stop() covered before its open event.
Cancelled(a) == stoppedAt[a] \in {"mic", "connecting"}

\* C6: the open event of an attempt that stop() cancelled while Connecting
\* leaves AgentState as it is and starts no capture, and the session of that
\* attempt never becomes the current one.
C6_CancelledAttemptStaysCancelled ==
  [][\A a \in Attempts :
       Cancelled(a) =>
         /\ (stage[a] = "connecting" /\ stage'[a] = "opened") =>
              (agentState' = agentState /\ a \notin captureOn')
         /\ sessionRef' # a]_vars

\* C7: a failed attempt (no credential, microphone denied, connection
\* refused) ends with AgentState Idle, an error message and the initializing
\* flag cleared, so that the guard of connect() lets the next one pass.
C7_FailureReturnsToIdle ==
  lastEvent.op \in {"connectNoKey", "micDenied", "error"} =>
    /\ agentState = "IDLE"
    /\ error # "none"
    /\ ~isInitializingRef

C7_Witness ==
  /\ lastEvent.op = "micDenied"
  /\ error = "Failed to start session"
  /\ agentState = "IDLE"

\* C8: a frame captured while the mute flag is set is not handed to the
\* session; the first frame after the user's mute is dropped and the first
\* frame after the user's unmute is sent when a session is connected.
C8_MuteGatesFrames ==
  \A i \in 1..Len(frameLog) :
    LET f == frameLog[i]
    IN  /\ f.muted => f.to = 0
        /\ (f.afterToggle /\ ~f.muted /\ f.session # 0) => f.to = f.session

\* C9: of two audio buffers scheduled one after the other on one open
\* output context, with neither an interruption nor a stop between them, the
\* later starts no earlier than the earlier one's start plus its duration.
C9_NoOverlap ==
  \A i \in 2..Len(scheduled) :
    LET prev == scheduled[i - 1]
        this == scheduled[i]
    IN  (~this.afterReset /\ this.ctx = prev.ctx /\ this.open /\ prev.open) =>
          this.start >= prev.start + prev.dur

\* A step in which a message carrying an interruption is handled.
InterruptionStep ==
  /\ Len(delivered') = Len(delivered) + 1
  /\ delivered'[Len(delivered')].msg.interrupted

\* The interruption stops every active source, empties the set and zeroes
\* the cursor.
InterruptionClears ==
  [][InterruptionStep =>
       /\ sourcesRef \subseteq stoppedNodes'
       /\ sourcesRef' = {}
       /\ nextStartTimeRef' = 0]_vars

\* The buffers of the first audio message to arrive after an interruption.
FirstAfterInterruption ==
  {i \in 1..Len(scheduled) :
     \E j \in 1..(scheduled[i].no - 1) :
       /\ delivered[j].msg.interrupted
       /\ \A k \in (j + 1)..(scheduled[i].no - 1) : delivered[k].msg.audio = 0}

StartsAtClock ==
  \A i \in FirstAfterInterruption : scheduled[i].start = scheduled[i].clk

\* C10: an interruption stops every source of the active playback set,
\* empties the set and zeroes the cursor, and the next audio payload to
\* arrive after it starts at the playback clock of that moment.
C10_InterruptionStartsFresh == InterruptionClears /\ []StartsAtClock

\* ------------------------------------------------------------ transcripts
\* A step in which a message arrives and its handler runs to its first await.
MessageStep == Len(delivered') = Len(delivered) + 1

\* The delta of speaker s in message m (<<>>: none).
Delta(m, s) == IF s = "agent" THEN m.outT ELSE m.inT

Other(s) == IF s = "agent" THEN "user" ELSE "agent"

\* m carries a delta of s and nothing else.
OnlyDelta(m, s) ==
  /\ Delta(m, s) # <<>> /\ Delta(m, Other(s)) = <<>>
  /\ ~m.turnComplete /\ m.toolCall = <<>> /\ m.audio = 0 /\ ~m.interrupted

\* m carries turnComplete and nothing else.
OnlyTurnComplete(m) ==
  /\ m.turnComplete /\ m.outT = <<>> /\ m.inT = <<>>
  /\ m.toolCall = <<>> /\ m.audio = 0 /\ ~m.interrupted

\* In the arrival sequence d, the first message of the turn of message k:
\* the one after the last turnComplete before k.
TurnStart(d, k) ==
  LET tcs == {j \in 1..(k - 1) : d[j].msg.turnComplete}
  IN  IF tcs = {} THEN 1
      ELSE (CHOOSE j \in tcs : \A i \in tcs : i <= j) + 1

\* The deltas of s in d[lo..hi], concatenated in arrival order.
RECURSIVE Concat(_, _, _, _)
Concat(d, lo, hi, s) ==
  IF lo > hi THEN <<>>
  ELSE Concat(d, lo, hi - 1, s) \o Delta(d[hi].msg, s)

AllDeltasOf(d, lo, hi, s) == \A j \in lo..hi : OnlyDelta(d[j].msg, s)

Entry(s, text, final) == [speaker |-> s, text |-> text, isFinal |-> final]

\* The transcript t followed by n new entries, the last one being e.
GainsTo(t, n, e) ==
  /\ Len(transcripts') = Len(t) + n
  /\ Len(transcripts') > 0
  /\ transcripts'[Len(transcripts')] = e
  /\ \A i \in 1..(Len(transcripts') - 1) : transcripts'[i] = t[i]

\* C11: in a turn that consists of deltas of one speaker and then
\* turnComplete, the first delta adds one entry for that speaker, each later
\* delta updates it in place, and turnComplete leaves it final with the
\* concatenation of the deltas as its text; the rest of the transcript stays.
C11_OneEntryPerTurn ==
  [][MessageStep =>
       LET d == delivered'
           k == Len(d)
           m == d[k].msg
           lo == TurnStart(d, k)
       IN  \A s \in {"agent", "user"} :
             /\ (OnlyDelta(m, s) /\ AllDeltasOf(d, lo, k - 1, s)) =>
                  GainsTo(transcripts, IF lo = k THEN 1 ELSE 0,
                          Entry(s, Concat(d, lo, k, s), FALSE))
             /\ (OnlyTurnComplete(m) /\ lo < k /\ AllDeltasOf(d, lo, k - 1, s)) =>
                  GainsTo(transcripts, 0,
                          Entry(s, Concat(d, lo, k - 1, s), TRUE))]_vars

NonFinal(s) ==
  {i \in 1..Len(transcripts) :
     transcripts[i].speaker = s /\ ~transcripts[i].isFinal}

\* C12: the transcript never holds more than one non-final entry of one
\* speaker.
C12_OneNonFinalPerSpeaker ==
  \A s \in {"agent", "user"} : Cardinality(NonFinal(s)) <= 1

\* C13: while AgentState is IN_CALL, and rendered as such, a message that
\* carries an audio chunk or turnComplete, and neither a tool call nor an
\* interruption, leaves AgentState IN_CALL.
C13_InCallStays ==
  [][(/\ MessageStep
      /\ agentState = "IN_CALL" /\ agentStateRef = "IN_CALL"
      /\ LET m == delivered'[Len(delivered')].msg
         IN  /\ m.audio # 0 \/ m.turnComplete
             /\ m.toolCall = <<>> /\ ~m.interrupted)
       => agentState' = "IN_CALL"]_vars

\* C14: the call details are present only while AgentState is IN_CALL.
C14_DetailsOnlyInCall ==
  activeCallDetails # "none" => agentState = "IN_CALL"

\* The entries of speaker s, in order.
EntriesOf(t, s) == SelectSeq(t, LAMBDA e : e.speaker = s)

\* C19: turnComplete handled while a speaker's accumulator is empty adds no
\* entry of that speaker and changes none of them; with both accumulators
\* empty the transcript stays as it is.
C19_EmptyTurnCompleteAddsNothing ==
  [][(MessageStep /\ OnlyTurnComplete(delivered'[Len(delivered')].msg)) =>
       /\ currentInputTransRef = <<>> =>
            EntriesOf(transcripts', "user") = EntriesOf(transcripts, "user")
       /\ currentOutputTransRef = <<>> =>
            EntriesOf(transcripts', "agent") = EntriesOf(transcripts, "agent")
       /\ (currentInputTransRef = <<>> /\ currentOutputTransRef = <<>>) =>
            transcripts' = transcripts]_vars

\* turnComplete right after turnComplete, with entries in the transcript.
C19_Witness ==
  /\ Len(delivered) >= 3
  /\ OnlyTurnComplete(delivered[Len(delivered)].msg)
  /\ OnlyTurnComplete(delivered[Len(delivered) - 1].msg)
  /\ outcome[Len(delivered)].st = "done"
  /\ transcripts # <<>>
  /\ currentInputTransRef = <<>> /\ currentOutputTransRef = <<>>

\* The tool-call messages whose handler is over, by its end or by an
\* exception, with its session the current one.
ToolHandlersOver ==
  {k \in 1..Len(delivered) :
     /\ delivered[k].msg.toolCall # <<>>
     /\ outcome[k].st # "pending"
     /\ outcome[k].current}

\* C15: when a request of a batch fails (the store write of saveCall or
\* updateMemory raises), the batch is still replied to, and the reply holds
\* an entry for that request and for every other request of the batch.
C15_FailureStillAnswered ==
  \A k \in ToolHandlersOver :
    \E i \in RepliesTo(k) :
      \A j \in 1..Len(delivered[k].msg.toolCall) :
        \E n \in 1..Len(sent[i].entries) :
          sent[i].entries[n].id = delivered[k].msg.toolCall[j].id

KnownTools == {"execute_call", "find_business_number", "save_user_preference"}

Unknown(fc) == fc.name \notin KnownTools

Occurrences(m, p) == {i \in 1..Len(m) : m[i] = p}

Distinct(m) == \A i, j \in 1..Len(m) : m[i] = m[j] => i = j

\* A step in which a message [save_user_preference(p)] is handled to its end.
Saved(p) ==
  /\ MessageStep
  /\ delivered'[Len(delivered')].msg.toolCall = <<SavePref(p)>>
  /\ outcome'[Len(delivered')].st = "done"

\* C17: saving preference p leaves p exactly once in the stored list with
\* every earlier preference still there, saving it again changes nothing,
\* and the stored preferences stay pairwise distinct.
C17_SaveIsIdempotentMerge ==
  /\ [][\A p \in Prefs :
          Saved(p) =>
            /\ Cardinality(Occurrences(memory', p)) = 1
            /\ \A i \in 1..Len(memory) : \E j \in 1..Len(memory') :
                 memory'[j] = memory[i]
            /\ updateMemory(memory', <<p>>) = memory'
            /\ (Occurrences(memory, p) # {} => memory' = memory)]_vars
  /\ []Distinct(memory)

\* The same preference saved twice in a row on top of another one.
C17_Witness ==
  /\ Len(delivered) >= 2
  /\ \E p \in Prefs :
       /\ delivered[Len(delivered)].msg.toolCall = <<SavePref(p)>>
       /\ delivered[Len(delivered) - 1].msg.toolCall = <<SavePref(p)>>
       /\ outcome[Len(delivered)].st = "done"
       /\ outcome[Len(delivered) - 1].st = "done"
       /\ Cardinality(Occurrences(memory, p)) = 1
  /\ Len(memory) = 2

\* C18: stop() invoked while AgentState is IDLE changes neither AgentState,
\* the transcript, the log, the mute flag, the cursor, the active playback
\* set, the accumulators, the call details nor the session handle.
C18_StopWhileIdleIsNoOp ==
  [][(StopCalled /\ agentState = "IDLE") =>
       UNCHANGED <<agentState, transcripts, logs, isMicMuted,
                   nextStartTimeRef, sourcesRef, currentInputTransRef,
                   currentOutputTransRef, activeCallDetails, sessionRef>>]_vars

\* A frame captured while AgentState is IN_CALL and the mute flag that
\* execute_call set is still set.
FramesInMutedCall ==
  {i \in 1..Len(frameLog) :
     frameLog[i].state = "IN_CALL" /\ frameLog[i].muted}

\* C20: a step that takes AgentState into IN_CALL sets the mute flag, the
\* frames captured from then on are dropped as long as the flag is set, and
\* the take-over clears the flag and leaves AgentState and the call details.
C20_CallMutesAtOnce ==
  /\ [][(agentState # "IN_CALL" /\ agentState' = "IN_CALL") =>
          isMicMuted']_vars
  /\ [](\A i \in FramesInMutedCall : frameLog[i].to = 0)
  /\ [][(lastEvent' # lastEvent /\ lastEvent'.op = "takeOver") =>
          (~isMicMuted' /\ UNCHANGED <<agentState, activeCallDetails>>)]_vars

\* A step in which onclose or onerror runs.
CloseStep == lastEvent' # lastEvent /\ lastEvent'.op \in {"close", "error"}

\* The attempts whose remote session has been opened (ai.live.connect called).
Opened == {a \in Attempts : stage[a] \notin {"none", "mic", "failed"}}

\* C21: a close or error event of the session leaves AgentState Idle and the
\* active playback set empty, an error event leaves an error message, and
\* from then on no remote session is opened until connect() is invoked.
C21_NoReconnect ==
  /\ [][CloseStep => (agentState' = "IDLE" /\ sourcesRef' = {})]_vars
  /\ [][(CloseStep /\ lastEvent'.op = "error") => error' # "none"]_vars
  /\ [][lastEvent'.sinceClose => Opened' \subseteq Opened]_vars

\* A step in which the timer of a simulated delay fires.
DelayStep == handlers' # handlers /\ delivered' = delivered

\* The handler that a DelayStep resumes: the one that is no longer waiting
\* in the same delay.
Resumed ==
  CHOOSE i \in 1..Len(handlers) :
    \A j \in 1..Len(handlers') :
      handlers'[j].no = handlers[i].no => handlers'[j].idx # handlers[i].idx

ResumedRequest == handlers[Resumed].msg.toolCall[handlers[Resumed].idx]

CallRecord(fc) == [recipient |-> fc.arg, status |-> "completed"]

\* C22: an execute_call request, once its delay is over and the store takes
\* the write, has added one record with status completed in front of the
\* stored ones, which keep their content and order; no other step of the
\* component changes the stored records.
C22_OneRecordPerCall ==
  [][/\ (/\ DelayStep
         /\ ResumedRequest.name = "execute_call"
         /\ outcome'[handlers[Resumed].no].st # "thrown")
         => calls' = <<CallRecord(ResumedRequest)>> \o calls
     /\ calls' # calls =>
           /\ DelayStep /\ ResumedRequest.name = "execute_call"
           /\ Len(calls') = Len(calls) + 1
           /\ calls'[1].status = "completed"
           /\ \A i \in 1..Len(calls) : calls'[i + 1] = calls[i]]_vars

\* Two calls recorded, to different recipients, the later one first, with a
\* stop() having run.
C22_Witness ==
  /\ calls = <<CallRecord(CallAnn), CallRecord(ExecuteCall)>>
  /\ logs > 0

\* C23: right after stop() the next-start-time cursor is zero, whatever it
\* held before.
C23_StopResetsCursor ==
  [][StopCalled => nextStartTimeRef' = 0]_vars

\* C24: a turnComplete handled while AgentState is SPEAKING leaves AgentState
\* LISTENING, also when the turn brought audio and no agent delta.
C24_TurnCompleteEndsSpeaking ==
  [][(/\ MessageStep
      /\ agentState = "SPEAKING"
      /\ LET m == delivered'[Len(delivered')].msg
         IN  m.turnComplete /\ m.audio = 0 /\ m.toolCall = <<>>)
       => agentState' = "LISTENING"]_vars

\* The accumulator of speaker s.
Accumulator(s) ==
  IF s = "agent" THEN currentOutputTransRef ELSE currentInputTransRef

\* C25: once a turnComplete is handled both accumulators are empty, and a
\* speaker whose accumulator held text has that text in a final entry and no
\* non-final entry left, also when the deltas of the two speakers were
\* interleaved.
C25_TurnCompleteFinalises ==
  [][(MessageStep /\ OnlyTurnComplete(delivered'[Len(delivered')].msg)) =>
       /\ currentInputTransRef' = <<>> /\ currentOutputTransRef' = <<>>
       /\ \A s \in {"agent", "user"} :
            Accumulator(s) # <<>> =>
              /\ \E i \in 1..Len(transcripts') :
                   transcripts'[i] = Entry(s, Accumulator(s), TRUE)
              /\ NonFinal(s)' = {}]_vars

\* C26: while the handler of an earlier message is suspended in a simulated
\* delay, the arrival of a later message changes neither the transcript,
\* AgentState, the accumulators, the buffers scheduled, the active playback
\* set nor the cursor: its changes wait for the earlier handler to end.
C26_ArrivalOrder ==
  [][(MessageStep /\ handlers # <<>>) =>
       UNCHANGED <<transcripts, agentState, currentInputTransRef,
                   currentOutputTransRef, scheduled, sourcesRef,
                   nextStartTimeRef>>]_vars

\* C27: every buffer is scheduled to start at or after the current time its
\* context showed when it was scheduled: right after connect(), after an
\* interruption and after a gap without audio.
C27_NeverInThePast ==
  \A i \in 1..Len(scheduled) : scheduled[i].start >= scheduled[i].clk

\* A buffer scheduled after an interruption zeroed the cursor, with the
\* clock of its context past zero.
C27_Witness ==
  \E i \in 2..Len(scheduled) :
    /\ scheduled[i].afterReset /\ scheduled[i].clk > 0
    /\ \E j \in (scheduled[i - 1].no + 1)..(scheduled[i].no - 1) :
         delivered[j].msg.interrupted

\* C28: each delta of a message, also of one that carries a delta of both
\* directions, is appended to the accumulator of its direction and shown as
\* the text of that speaker's non-final entry.
C28_NoDeltaLost ==
  [][MessageStep =>
       LET m == delivered'[Len(delivered')].msg
       IN  \A s \in {"agent", "user"} :
             (Delta(m, s) # <<>> /\ ~m.turnComplete /\ ~m.interrupted) =>
               /\ Accumulator(s)' = Accumulator(s) \o Delta(m, s)
               /\ \E i \in 1..Len(transcripts') :
                    transcripts'[i] = Entry(s, Accumulator(s)', FALSE)]_vars

\* C29: a captured frame is handed to no session other than the one opened
\* by the most recent connect(), also between the open event of the new
\* session and the moment its handle is stored.
C29_FramesToLatestSession ==
  \A i \in 1..Len(frameLog) : frameLog[i].to \in {0, frameLog[i].latest}

\* C30: no buffer is scheduled for a message that arrived before an
\* interruption already handled: the audio of a handler that was suspended
\* when the interruption came is dropped.
C30_NoAudioFromBeforeInterruption ==
  [][Len(scheduled') > Len(scheduled) =>
       LET b == scheduled'[Len(scheduled')]
       IN  \A j \in (b.no + 1)..Len(delivered) :
             ~delivered[j].msg.interrupted]_vars

\* A step of the Mute or of the Take Over button: each of them changes the
\* flag.
UserMuteStep ==
  lastEvent'.op \in {"toggleMute", "takeOver"} /\ isMicMuted' # isMicMuted

\* A step in which a handler takes up a request execute_call.
ExecuteCallStep ==
  /\ activeCallDetails' # "none" /\ agentState' = "IN_CALL"
  /\ \E i \in 1..Len(handlers') :
       LET h == handlers'[i]
       IN  /\ h.msg.toolCall[h.idx].name = "execute_call"
           /\ \A j \in 1..Len(handlers) : handlers[j] # h

\* C31: the mute flag changes only in a step of the Mute button, of the
\* Take Over button or of a handler taking up execute_call (which sets it);
\* stop(), connect(), open, close, error, turnComplete and interruption leave
\* it, so that a flag set with its ref stays set with its ref until the user
\* acts, a connect() keeps both, and every frame captured meanwhile is
\* dropped.
C31_MuteFrame ==
  /\ [][isMicMuted' # isMicMuted =>
          (UserMuteStep \/ (ExecuteCallStep /\ isMicMuted'))]_vars
  /\ [][(isMicMuted /\ isMicMutedRef /\ ~UserMuteStep) =>
          (isMicMuted' /\ isMicMutedRef')]_vars
  /\ [][(lastEvent'.op = "connect" /\ lastEvent' # lastEvent /\ isMicMuted) =>
          (isMicMuted' /\ isMicMutedRef')]_vars
  /\ [](\A i \in 1..Len(frameLog) : frameLog[i].mutedRef => frameLog[i].to = 0)

\* A frame of the second session, live and the current one, dropped under
\* the mute flag that an execute_call of the first session set.
C31_Witness ==
  /\ stoppedAt[1] = "live" /\ stage[2] = "live"
  /\ \E k \in 1..Len(delivered) :
       delivered[k].att = 1 /\ delivered[k].msg.toolCall = <<ExecuteCall>>
  /\ \E i \in 1..Len(frameLog) :
       /\ frameLog[i].from = 2 /\ frameLog[i].session = 2
       /\ frameLog[i].muted /\ frameLog[i].to = 0
  /\ lastEvent.op = "frame"

====
